---- MODULE Spec2Model ----
(***************************************************************************)
(* Configuration resolution of the flowercare exporter                     *)
(* (internal/config/config.go): the sensor list (SensorList.Set,           *)
(* parseSensor), the sensor record decoder (Sensor.UnmarshalJSON), the     *)
(* directory reader (readSensorsFromDir) and Parse with its validation.    *)
(*                                                                         *)
(* Go strings that the code takes apart (sensor tokens, file names, names  *)
(* and addresses of sensors) are sequences of one-character strings.       *)
(* Strings the code only tests for emptiness or passes on (paths, adapter  *)
(* name, listen address) are TLA+ strings, "" being the empty string.      *)
(* A time.Duration is a two's-complement integer of DurBits bits counting  *)
(* ticks of 30 seconds (Go: 64 bits counting nanoseconds).                 *)
(***************************************************************************)
EXTENDS Integers, Sequences, FiniteSets, TLC

VARIABLES
    pc,          \* position of Parse: "idle", "start", "flags", "validate", "returned", "exited"
    args,        \* os.Args[1:] as a sequence of [flag, val] settings
    fs,          \* the file system: what os.ReadDir / os.ReadFile see
    result,      \* Parse's local Config
    registered,  \* names of the flags registered with pflag so far
    readPath,    \* the path readSensorsFromDir was called with, NoPath before
    flagErr,     \* the error pflag.Parse stopped at, nil if none
    ret,         \* what Parse returned: [done, config, err], done only after the return
    exitCode,    \* exit status when the process was terminated, NoExit otherwise
    log,         \* the log lines written, in order
    tokens,      \* values given to SensorList.Set, in order
    list,        \* the SensorList the values are set on
    ti,          \* number of values already handed to Set
    setErr,      \* the error of the last Set, nil if none
    dirRet       \* what readSensorsFromDir returned: [done, sensors, err, log]

vars == <<pc, args, fs, result, registered, readPath, flagErr, ret, exitCode, log,
          tokens, list, ti, setErr, dirRet>>

parseVars == <<pc, args, result, registered, readPath, flagErr, ret, exitCode, log>>
cliVars == <<tokens, list, ti, setErr>>

-----------------------------------------------------------------------------
(* Bounds of the model *)

MaxTokens == 2      \* values given to -s
MaxTokenLen == 3    \* characters of one value
MaxFiles == 3       \* entries of one directory
MaxArgs == 2        \* flag settings on one command line
DurBits == 8        \* width of a duration

-----------------------------------------------------------------------------
(* Values *)

nil == "nil"
NoPath == "<no path>"
NoExit == 0 - 1

RECURSIVE Pow2(_)
Pow2(n) == IF n = 0 THEN 1 ELSE 2 * Pow2(n - 1)

\* Go's signed integer arithmetic: the result modulo 2^DurBits, in two's complement.
Wrap(x) == ((x + Pow2(DurBits - 1)) % Pow2(DurBits)) - Pow2(DurBits - 1)

ThirtySeconds == 1
Minute == 2 * ThirtySeconds

\* A float64: a NaN, or a finite value in millionths.
Flt(micro) == [nan |-> FALSE, micro |-> micro]
NaN == [nan |-> TRUE, micro |-> 0]
\* Go's f < g on float64: false as soon as one side is a NaN.
FloatLess(f, g) == ~f.nan /\ ~g.nan /\ f.micro < g.micro

ZeroSensor ==
    [Name |-> <<>>, MacAddress |-> <<>>,
     MaxSoilMoist |-> 0, MinSoilMoist |-> 0, MaxSoilEc |-> 0,
     MinSoilEc |-> 0, MaxLightLux |-> 0, MinLightLux |-> 0]

-----------------------------------------------------------------------------
(* parseSensor and SensorList.Set *)

\* Index of the first sep in s, 0 if there is none.
RECURSIVE IndexFrom(_, _, _)
IndexFrom(s, sep, i) ==
    IF i > Len(s) THEN 0
    ELSE IF s[i] = sep THEN i
    ELSE IndexFrom(s, sep, i + 1)

\* Index of the last sep in s, 0 if there is none.
RECURSIVE LastIndexFrom(_, _, _)
LastIndexFrom(s, sep, i) ==
    IF i < 1 THEN 0
    ELSE IF s[i] = sep THEN i
    ELSE LastIndexFrom(s, sep, i - 1)

\* A split at the last separator instead of the first.
SplitN2_Last(s, sep) ==
    LET i == LastIndexFrom(s, sep, Len(s))
    IN  IF i = 0 THEN <<s>>
        ELSE <<SubSeq(s, 1, i - 1), SubSeq(s, i + 1, Len(s))>>

\* strings.SplitN(s, sep, 2) for a one-character sep.
SplitN2(s, sep) ==
    LET i == IndexFrom(s, sep, 1)
    IN  IF i = 0 THEN <<s>>
        ELSE <<SubSeq(s, 1, i - 1), SubSeq(s, i + 1, Len(s))>>

parseSensor(value) ==
    IF Len(value) = 0
    THEN [sensor |-> ZeroSensor, err |-> "empty string"]
    ELSE LET parts == SplitN2(value, "=")
         IN  IF Len(parts) = 1
             THEN [sensor |-> [ZeroSensor EXCEPT !.MacAddress = parts[1]], err |-> nil]
             ELSE [sensor |-> [ZeroSensor EXCEPT !.Name = parts[1], !.MacAddress = parts[2]],
                   err |-> nil]

\* (s *SensorList) Set(value): the list afterwards and the error returned.
SensorListSet(s, value) ==
    LET p == parseSensor(value)
    IN  IF p.err # nil
        THEN [list |-> s, err |-> "can not parse sensor: " \o p.err]
        ELSE [list |-> Append(s, p.sensor), err |-> nil]

-----------------------------------------------------------------------------
(* Sensor.UnmarshalJSON *)

\* A JSON value as encoding/json sees it. A document that is not JSON at all
\* is JInvalid; a key an object does not hold is JAbsent.
JInvalid == [t |-> "invalid"]
JAbsent == [t |-> "absent"]
JNull == [t |-> "null"]
JStr(s) == [t |-> "string", s |-> s]
JNum(n) == [t |-> "number", n |-> n]
JObj(fields) == [t |-> "object", fields |-> fields]

Field(obj, key) == IF key \in DOMAIN obj.fields THEN obj.fields[key] ELSE JAbsent

\* Decoding into a Go string: a JSON string is stored, null and a missing key
\* leave the zero value, anything else is an UnmarshalTypeError.
DecodeString(jv) ==
    IF jv.t = "string" THEN [ok |-> TRUE, v |-> jv.s]
    ELSE IF jv.t \in {"absent", "null"} THEN [ok |-> TRUE, v |-> <<>>]
    ELSE [ok |-> FALSE, v |-> <<>>]

\* Decoding into a Go int.
DecodeInt(jv) ==
    IF jv.t = "number" THEN [ok |-> TRUE, v |-> jv.n]
    ELSE IF jv.t \in {"absent", "null"} THEN [ok |-> TRUE, v |-> 0]
    ELSE [ok |-> FALSE, v |-> 0]

ParameterKeys ==
    <<"max_soil_moist", "min_soil_moist", "max_soil_ec", "min_soil_ec",
      "max_light_lux", "min_light_lux">>

\* Decoding into the nested Parameter struct: the six ints, and whether all decoded.
DecodeParameter(jv) ==
    IF jv.t = "object"
    THEN LET d == [i \in 1..6 |-> DecodeInt(Field(jv, ParameterKeys[i]))]
         IN  [ok |-> \A i \in 1..6 : d[i].ok, v |-> [i \in 1..6 |-> d[i].v]]
    ELSE IF jv.t \in {"absent", "null"} THEN [ok |-> TRUE, v |-> [i \in 1..6 |-> 0]]
    ELSE [ok |-> FALSE, v |-> [i \in 1..6 |-> 0]]

\* (s *Sensor) UnmarshalJSON(data) on a zero Sensor: the sensor afterwards and the error.
UnmarshalJSON(data) ==
    IF data.t = "invalid" THEN [sensor |-> ZeroSensor, err |-> "invalid character"]
    ELSE IF data.t = "null" THEN [sensor |-> ZeroSensor, err |-> nil]
    ELSE IF data.t # "object" THEN [sensor |-> ZeroSensor, err |-> "cannot unmarshal"]
    ELSE LET name == DecodeString(Field(data, "name"))
             mac == DecodeString(Field(data, "sensor"))
             par == DecodeParameter(Field(data, "parameter"))
         IN  IF ~(name.ok /\ mac.ok /\ par.ok)
             THEN [sensor |-> ZeroSensor, err |-> "cannot unmarshal"]
             ELSE [sensor |->
                      [Name |-> name.v, MacAddress |-> mac.v,
                       MaxSoilMoist |-> par.v[1], MinSoilMoist |-> par.v[2],
                       MaxSoilEc |-> par.v[3], MinSoilEc |-> par.v[4],
                       MaxLightLux |-> par.v[5], MinLightLux |-> par.v[6]],
                   err |-> nil]

-----------------------------------------------------------------------------
(* readSensorsFromDir *)

DefaultSensorDir == "internal/config/sensorData"
OtherDir == "/srv/sensors"

JsonSuffix == <<".", "j", "s", "o", "n">>

\* strings.HasSuffix
HasSuffix(s, suffix) ==
    /\ Len(s) >= Len(suffix)
    /\ SubSeq(s, Len(s) - Len(suffix) + 1, Len(s)) = suffix

Unlistable == [listable |-> FALSE, entries |-> <<>>]
Dir(entries) == [listable |-> TRUE, entries |-> entries]

\* os.ReadDir(path): the directory at path; a path that does not exist cannot be listed.
ReadDir(files, path) ==
    IF path = DefaultSensorDir THEN files.default
    ELSE IF path = OtherDir THEN files.other
    ELSE Unlistable

\* os.ReadFile(path): the bytes, or an error for a directory or an unreadable file.
ReadFile(entry) ==
    IF entry.isDir \/ ~entry.readable
    THEN [data |-> JInvalid, err |-> "read error"]
    ELSE [data |-> entry.data, err |-> nil]

\* The test of line 92 without its IsDir part.
IsRecordFile_AnyKind(entry) == HasSuffix(entry.name, JsonSuffix)

\* Line 92: the entry is a file whose name ends in ".json".
IsRecordFile(entry) == ~entry.isDir /\ HasSuffix(entry.name, JsonSuffix)

\* The loop of lines 90-107 from entry i on.
RECURSIVE ScanEntries(_, _, _, _)
ScanEntries(entries, i, sensors, lg) ==
    IF i > Len(entries) THEN [sensors |-> sensors, err |-> nil, log |-> lg]
    ELSE LET entry == entries[i]
             lg1 == Append(lg, "Entry")
         IN  IF ~IsRecordFile(entry) THEN ScanEntries(entries, i + 1, sensors, lg1)
             ELSE LET lg2 == Append(lg1, "opening")
                      file == ReadFile(entry)
                      dec == UnmarshalJSON(file.data)
                  IN  IF file.err # nil
                      THEN ScanEntries(entries, i + 1, sensors,
                                       Append(lg2, "Error reading file"))
                      ELSE IF dec.err # nil
                      THEN ScanEntries(entries, i + 1, sensors,
                                       Append(lg2, "Error unmarshalling JSON"))
                      ELSE ScanEntries(entries, i + 1, Append(sensors, dec.sensor), lg2)

readSensorsFromDir(dirPath, files) ==
    LET d == ReadDir(files, dirPath)
    IN  IF ~d.listable
        THEN [sensors |-> <<>>, err |-> "open " \o dirPath, log |-> <<>>]
        ELSE ScanEntries(d.entries, 1, <<>>, <<>>)

-----------------------------------------------------------------------------
(* Config and the flags *)

ZeroConfig ==
    [LogLevel |-> "panic", ListenAddr |-> "", Sensors |-> <<>>, Device |-> "",
     RefreshDuration |-> 0, RefreshTimeout |-> 0, StaleDuration |-> 0,
     Retry |-> [MinDuration |-> 0, MaxDuration |-> 0, Factor |-> Flt(0)],
     SensorDir |-> ""]

\* Lines 176-189.
DefaultConfig ==
    [LogLevel |-> "info", ListenAddr |-> ":9294", Sensors |-> <<>>, Device |-> "hci0",
     RefreshDuration |-> 2 * Minute, RefreshTimeout |-> Minute,
     StaleDuration |-> 5 * Minute,
     Retry |-> [MinDuration |-> ThirtySeconds, MaxDuration |-> 30 * Minute,
                Factor |-> Flt(2000000)],
     SensorDir |-> DefaultSensorDir]

LogLevels == {"panic", "fatal", "error", "warning", "info", "debug", "trace"}

\* The flags registered by lines 207-215.
ScalarFlags ==
    {"log-level", "addr", "adapter", "refresh-duration", "refresh-timeout",
     "stale-duration", "retry-min-duration", "retry-max-duration", "retry-factor"}

\* pflag setting one flag from the command line: the Config afterwards and the error.
ApplyFlag(cfg, reg, arg) ==
    IF arg.flag \notin reg
    THEN [cfg |-> cfg, err |-> "unknown flag: " \o arg.flag]
    ELSE IF arg.flag = "sensor"
    THEN LET r == SensorListSet(cfg.Sensors, arg.val)
         IN  [cfg |-> [cfg EXCEPT !.Sensors = r.list], err |-> r.err]
    ELSE IF arg.flag = "log-level"
    THEN IF arg.val \in LogLevels
         THEN [cfg |-> [cfg EXCEPT !.LogLevel = arg.val], err |-> nil]
         ELSE [cfg |-> cfg, err |-> "not a valid logrus Level"]
    ELSE [cfg |->
            CASE arg.flag = "sensordir" -> [cfg EXCEPT !.SensorDir = arg.val]
              [] arg.flag = "addr" -> [cfg EXCEPT !.ListenAddr = arg.val]
              [] arg.flag = "adapter" -> [cfg EXCEPT !.Device = arg.val]
              [] arg.flag = "refresh-duration" -> [cfg EXCEPT !.RefreshDuration = arg.val]
              [] arg.flag = "refresh-timeout" -> [cfg EXCEPT !.RefreshTimeout = arg.val]
              [] arg.flag = "stale-duration" -> [cfg EXCEPT !.StaleDuration = arg.val]
              [] arg.flag = "retry-min-duration" -> [cfg EXCEPT !.Retry.MinDuration = arg.val]
              [] arg.flag = "retry-max-duration" -> [cfg EXCEPT !.Retry.MaxDuration = arg.val]
              [] arg.flag = "retry-factor" -> [cfg EXCEPT !.Retry.Factor = arg.val],
          err |-> nil]

\* pflag.Parse over the arguments from position i on: they are applied in order
\* and parsing stops at the first one that fails.
RECURSIVE ApplyArgs(_, _, _, _)
ApplyArgs(cfg, reg, as, i) ==
    IF i > Len(as) THEN [cfg |-> cfg, err |-> nil]
    ELSE LET r == ApplyFlag(cfg, reg, as[i])
         IN  IF r.err # nil THEN r ELSE ApplyArgs(r.cfg, reg, as, i + 1)

\* A flag set that hands the error back to a caller that drops it.
ErrorHandling_Continue == "ContinueOnError"

\* pflag.CommandLine, which pflag.Parse() uses, terminates the process with
\* status 2 when an argument fails.
ErrorHandling == "ExitOnError"

\* A logger whose Fatalf returns.
FatalExits_Never(err) == FALSE

\* Lines 199-201: log.Fatalf terminates the process with status 1.
FatalExits(err) == err # nil

-----------------------------------------------------------------------------
(* The checks of Parse *)

\* Lines 218-244: the error Parse returns, nil if every check passes.
Validate(cfg) ==
    IF Len(cfg.Sensors) = 0 THEN "need to provide at least one sensor"
    ELSE IF cfg.Device = "" THEN "need to provide a bluetooth device"
    ELSE IF cfg.StaleDuration < Wrap(2 * cfg.RefreshDuration)
    THEN "stale duration needs to be at least"
    ELSE IF cfg.Retry.MinDuration < ThirtySeconds
    THEN "retry time needs to be at least thirty seconds"
    ELSE IF cfg.Retry.MaxDuration < cfg.Retry.MinDuration
    THEN "maximum retry time needs to be larger or equal to minimum time"
    ELSE IF FloatLess(cfg.Retry.Factor, Flt(1000000))
    THEN "retry factor needs to be equal or larger than one"
    ELSE nil

\* Lines 226-228: the warning is written once the first two checks have passed.
Warns(cfg) ==
    /\ Len(cfg.Sensors) # 0
    /\ cfg.Device # ""
    /\ cfg.RefreshDuration < Minute

\* A Parse that hands back the zero Config with an error.
ReturnedConfig_ZeroOnError(cfg, err) == IF err # nil THEN ZeroConfig ELSE cfg

\* The Config of every return statement of lines 219-246.
ReturnedConfig(cfg, err) == cfg

-----------------------------------------------------------------------------
(* Inputs *)

Kitchen ==
    <<"k", "i", "t", "c", "h", "e", "n", "=", "A", "A", ":", "B", "B", ":",
      "C", "C", ":", "D", "D", ":", "E", "E", ":", "F", "F">>
KitchenMac == SubSeq(Kitchen, 9, Len(Kitchen))
KitchenName == SubSeq(Kitchen, 1, 7)

\* Contents of sensor record files.
DocKitchen ==
    JObj([name |-> JStr(KitchenName), sensor |-> JStr(KitchenMac),
          parameter |-> JObj([max_soil_moist |-> JNum(60), min_soil_moist |-> JNum(15),
                              max_soil_ec |-> JNum(2000), min_soil_ec |-> JNum(350),
                              max_light_lux |-> JNum(30000), min_light_lux |-> JNum(500)])])
DocBare == JObj([sensor |-> JStr(<<"B", "B">>)])
DocEmpty == JObj(<<>>)
DocWrongType == JObj([name |-> JStr(<<"w">>), sensor |-> JNum(5)])
DocBadParameter ==
    JObj([sensor |-> JStr(<<"C", "C">>), parameter |-> JObj([max_soil_ec |-> JStr(<<"x">>)])])

\* What a directory entry can be: a directory, an unreadable file, a file with a document.
FileKinds ==
    << [isDir |-> TRUE, readable |-> TRUE, data |-> JInvalid],
       [isDir |-> FALSE, readable |-> FALSE, data |-> JInvalid],
       [isDir |-> FALSE, readable |-> TRUE, data |-> JInvalid],
       [isDir |-> FALSE, readable |-> TRUE, data |-> DocKitchen],
       [isDir |-> FALSE, readable |-> TRUE, data |-> DocBare],
       [isDir |-> FALSE, readable |-> TRUE, data |-> DocEmpty],
       [isDir |-> FALSE, readable |-> TRUE, data |-> DocWrongType],
       [isDir |-> FALSE, readable |-> TRUE, data |-> DocBadParameter],
       [isDir |-> FALSE, readable |-> TRUE, data |-> JNull] >>

\* File names, in the order os.ReadDir lists them (sorted by name).
DirNames ==
    << JsonSuffix,
       <<"a", ".", "j", "s", "o", "n">>,
       <<"b", ".", "t", "x", "t">>,
       <<"c", ".", "j", "s", "o", "n">>,
       <<"j", "s", "o", "n">> >>

Entry(n, k) ==
    [name |-> DirNames[n], isDir |-> FileKinds[k].isDir,
     readable |-> FileKinds[k].readable, data |-> FileKinds[k].data]

\* The listing of the directory that holds, for each n of S, file DirNames[n] of kind kinds[n].
RECURSIVE Listing(_, _, _)
Listing(S, kinds, n) ==
    IF n > Len(DirNames) THEN <<>>
    ELSE IF n \in S THEN <<Entry(n, kinds[n])>> \o Listing(S, kinds, n + 1)
    ELSE Listing(S, kinds, n + 1)

\* Command-line settings Parse is run with.
ArgOptions ==
    << [flag |-> "sensordir", val |-> ""],
       [flag |-> "sensordir", val |-> OtherDir],
       [flag |-> "sensor", val |-> <<>>],
       [flag |-> "sensor", val |-> Kitchen],
       [flag |-> "adapter", val |-> ""],
       [flag |-> "refresh-duration", val |-> ThirtySeconds],
       [flag |-> "refresh-duration", val |-> Pow2(DurBits - 2)],
       [flag |-> "stale-duration", val |-> 3 * Minute],
       [flag |-> "stale-duration", val |-> 4 * Minute - 1],
       [flag |-> "stale-duration", val |-> 4 * Minute],
       [flag |-> "retry-min-duration", val |-> ThirtySeconds - 1],
       [flag |-> "retry-min-duration", val |-> Minute],
       [flag |-> "retry-max-duration", val |-> ThirtySeconds - 1],
       [flag |-> "retry-max-duration", val |-> ThirtySeconds],
       [flag |-> "retry-factor", val |-> NaN],
       [flag |-> "retry-factor", val |-> Flt(999999)],
       [flag |-> "retry-factor", val |-> Flt(1000000)],
       [flag |-> "log-level", val |-> "loud"] >>

\* Directories Parse finds at the built-in path and at the operator's path.
DefaultDirs ==
    << Unlistable,
       Dir(<<>>),
       Dir(<<Entry(2, 4)>>),
       Dir(<<Entry(2, 6)>>),
       Dir(<<Entry(2, 3), Entry(4, 5)>>) >>
OtherDirs == << Unlistable, Dir(<<Entry(4, 5)>>) >>

-----------------------------------------------------------------------------
(* Parse *)

IdleParse ==
    /\ pc = "idle"
    /\ args = <<>>
    /\ result = DefaultConfig
    /\ registered = {}
    /\ readPath = NoPath
    /\ flagErr = nil
    /\ ret = [done |-> FALSE, config |-> ZeroConfig, err |-> nil]
    /\ exitCode = NoExit
    /\ log = <<>>

IdleCli ==
    /\ tokens = <<>>
    /\ list = <<>>
    /\ ti = 0
    /\ setErr = nil

IdleDir == dirRet = [done |-> FALSE, sensors |-> <<>>, err |-> nil, log |-> <<>>]

\* Parse is entered: result holds the defaults of lines 176-189.
Init ==
    /\ pc = "start"
    /\ \E n \in 0..MaxArgs : \E f \in [1..n -> 1..Len(ArgOptions)] :
          args = [i \in 1..n |-> ArgOptions[f[i]]]
    /\ \E d \in 1..Len(DefaultDirs), o \in 1..Len(OtherDirs) :
          fs = [default |-> DefaultDirs[d], other |-> OtherDirs[o]]
    /\ result = DefaultConfig
    /\ registered = {}
    /\ readPath = NoPath
    /\ flagErr = nil
    /\ ret = [done |-> FALSE, config |-> ZeroConfig, err |-> nil]
    /\ exitCode = NoExit
    /\ log = <<>>
    /\ IdleCli
    /\ IdleDir

\* Lines 193-206: the sensordir flag is registered, result.SensorDir is tested
\* and the sensors are read from it, or the sensor flag is registered.
ResolveSensors ==
    /\ pc = "start"
    /\ IF Len(result.SensorDir) # 0
       THEN LET r == readSensorsFromDir(result.SensorDir, fs)
                lg == <<"sensordir", "sensor directory">> \o r.log
            IN  /\ readPath' = result.SensorDir
                /\ registered' = {"sensordir"}
                /\ IF FatalExits(r.err)
                   THEN /\ log' = Append(lg, "Error reading sensors from directory")
                        /\ pc' = "exited"
                        /\ exitCode' = 1
                        /\ UNCHANGED result
                   ELSE /\ log' = IF r.err # nil
                                  THEN Append(lg, "Error reading sensors from directory")
                                  ELSE lg
                        /\ result' = [result EXCEPT !.Sensors = r.sensors]
                        /\ pc' = "flags"
                        /\ UNCHANGED exitCode
       ELSE /\ registered' = {"sensordir", "sensor"}
            /\ log' = <<"sensordir">>
            /\ pc' = "flags"
            /\ UNCHANGED <<readPath, result, exitCode>>
    /\ UNCHANGED <<args, fs, flagErr, ret, tokens, list, ti, setErr, dirRet>>

\* Lines 207-216: the other flags are registered and pflag.Parse() applies the
\* command line to result.
ParseFlags ==
    /\ pc = "flags"
    /\ LET reg == registered \cup ScalarFlags
           r == ApplyArgs(result, reg, args, 1)
       IN  /\ registered' = reg
           /\ result' = r.cfg
           /\ flagErr' = r.err
           /\ IF r.err # nil /\ ErrorHandling = "ExitOnError"
              THEN pc' = "exited" /\ exitCode' = 2
              ELSE pc' = "validate" /\ UNCHANGED exitCode
    /\ UNCHANGED <<args, fs, readPath, ret, log, tokens, list, ti, setErr, dirRet>>

\* Lines 218-246: the checks, and the return.
ValidateAndReturn ==
    /\ pc = "validate"
    /\ LET err == Validate(result)
       IN  /\ ret' = [done |-> TRUE, config |-> ReturnedConfig(result, err), err |-> err]
           /\ log' = IF Warns(result)
                     THEN Append(log, "Refresh durations below one minute are discouraged")
                     ELSE log
    /\ pc' = "returned"
    /\ UNCHANGED <<args, fs, result, registered, readPath, flagErr, exitCode,
                   tokens, list, ti, setErr, dirRet>>

Next == ResolveSensors \/ ParseFlags \/ ValidateAndReturn

Spec == Init /\ [][Next]_vars

-----------------------------------------------------------------------------
(* SensorList.Set on its own: pflag hands it the values of the repeated flag *)
(* one by one and stops at the first error.                                  *)

TokenChars == {"a", "="}

RECURSIVE StringsUpTo(_)
StringsUpTo(n) ==
    IF n = 0 THEN {<<>>}
    ELSE LET shorter == StringsUpTo(n - 1)
         IN  shorter \cup {Append(s, c) : s \in shorter, c \in TokenChars}

RECURSIVE ListsUpTo(_, _)
ListsUpTo(S, n) ==
    IF n = 0 THEN {<<>>}
    ELSE LET shorter == ListsUpTo(S, n - 1)
         IN  shorter \cup {Append(l, x) : l \in shorter, x \in S}

InitCli ==
    /\ IdleParse
    /\ IdleDir
    /\ fs = [default |-> Unlistable, other |-> Unlistable]
    /\ tokens \in ListsUpTo(StringsUpTo(MaxTokenLen), MaxTokens)
    /\ list = <<>>
    /\ ti = 0
    /\ setErr = nil

SetNext ==
    /\ ti < Len(tokens)
    /\ setErr = nil
    /\ LET r == SensorListSet(list, tokens[ti + 1])
       IN  list' = r.list /\ setErr' = r.err
    /\ ti' = ti + 1
    /\ UNCHANGED <<tokens, fs, dirRet>>
    /\ UNCHANGED parseVars

NextCli == SetNext

SpecCli == InitCli /\ [][NextCli]_vars

-----------------------------------------------------------------------------
(* readSensorsFromDir on its own *)

InitDir ==
    /\ IdleParse
    /\ IdleCli
    /\ IdleDir
    /\ \/ fs = [default |-> Unlistable, other |-> Unlistable]
       \/ \E S \in SUBSET (1..Len(DirNames)) :
            /\ Cardinality(S) <= MaxFiles
            /\ \E kinds \in [S -> 1..Len(FileKinds)] :
                 fs = [default |-> Dir(Listing(S, kinds, 1)), other |-> Unlistable]

CallReadSensorsFromDir ==
    /\ ~dirRet.done
    /\ LET r == readSensorsFromDir(DefaultSensorDir, fs)
       IN  dirRet' = [done |-> TRUE, sensors |-> r.sensors, err |-> r.err, log |-> r.log]
    /\ UNCHANGED fs
    /\ UNCHANGED parseVars
    /\ UNCHANGED cliVars

NextDir == CallReadSensorsFromDir

SpecDir == InitDir /\ [][NextDir]_vars

-----------------------------------------------------------------------------
(* Properties of Parse *)

Finished == pc \in {"returned", "exited"}
Accepted == ret.done /\ ret.err = nil

Range(s) == {s[i] : i \in 1..Len(s)}

\* The directory path after the command line has been applied to the default.
RECURSIVE ResolvedDirFrom(_, _, _)
ResolvedDirFrom(as, i, path) ==
    IF i > Len(as) THEN path
    ELSE ResolvedDirFrom(as, i + 1, IF as[i].flag = "sensordir" THEN as[i].val ELSE path)
ResolvedDir == ResolvedDirFrom(args, 1, DefaultSensorDir)

\* The descriptors of the values given to -s, in order.
SensorArgs == SelectSeq(args, LAMBDA a : a.flag = "sensor")
TokenDescriptors == [i \in 1..Len(SensorArgs) |-> parseSensor(SensorArgs[i].val).sensor]

\* C1: the strategy is chosen from the directory path as it stands after the
\* operator's overrides: with an empty resolved path the sensor flag is the
\* source and an accepted Config holds exactly the descriptors of the -s
\* values; with a non-empty one the directory read is the resolved one.
C1_StrategyFollowsResolvedPath ==
    pc # "start" =>
        IF ResolvedDir = ""
        THEN /\ "sensor" \in registered
             /\ readPath = NoPath
             /\ Accepted => ret.config.Sensors = TokenDescriptors
        ELSE readPath = ResolvedDir

\* C2: a Config returned with a nil error satisfies every enforced invariant,
\* the staleness bound being taken over the integers (no wrap-around).
C2_AcceptedConfigSatisfiesInvariants ==
    Accepted =>
        /\ Len(ret.config.Sensors) > 0
        /\ ret.config.Device # ""
        /\ ret.config.StaleDuration >= 2 * ret.config.RefreshDuration
        /\ ret.config.Retry.MinDuration >= ThirtySeconds
        /\ ret.config.Retry.MaxDuration >= ret.config.Retry.MinDuration
        /\ ~ret.config.Retry.Factor.nan
        /\ ret.config.Retry.Factor.micro >= 1000000

EmptyTokenFirstFailure ==
    \E i \in 1..Len(args) :
        /\ args[i].flag = "sensor"
        /\ Len(args[i].val) = 0
        /\ \A j \in 1..(i - 1) : args[j].flag = "sensor" /\ Len(args[j].val) # 0
C7_EmptyTokenFailsWithParseError ==
    (Finished /\ EmptyTokenFirstFailure /\ "adapter" \in registered) =>
        /\ flagErr = "can not parse sensor: empty string"
        /\ ~ret.done
        /\ \A i \in 1..Len(result.Sensors) : result.Sensors[i] # ZeroSensor

\* The checks in their order, over the integers and the reals: the first
\* violated rule decides.
RefValidate(cfg) ==
    IF Len(cfg.Sensors) = 0 THEN "need to provide at least one sensor"
    ELSE IF cfg.Device = "" THEN "need to provide a bluetooth device"
    ELSE IF ~(cfg.StaleDuration >= 2 * cfg.RefreshDuration)
    THEN "stale duration needs to be at least"
    ELSE IF ~(cfg.Retry.MinDuration >= ThirtySeconds)
    THEN "retry time needs to be at least thirty seconds"
    ELSE IF ~(cfg.Retry.MaxDuration >= cfg.Retry.MinDuration)
    THEN "maximum retry time needs to be larger or equal to minimum time"
    ELSE IF ~(~cfg.Retry.Factor.nan /\ cfg.Retry.Factor.micro >= 1000000)
    THEN "retry factor needs to be equal or larger than one"
    ELSE nil

\* C8: the error Parse returns is that of the first violated rule of the
\* short-circuiting reference validator, for every resolved input.
C8_ValidationMatchesReference ==
    ret.done => ret.err = RefValidate(result)

\* Where twice the refresh interval does not wrap around and the factor is a
\* number, the checks of Parse and the reference validator agree.
InRange(cfg) ==
    /\ Wrap(2 * cfg.RefreshDuration) = 2 * cfg.RefreshDuration
    /\ ~cfg.Retry.Factor.nan
ValidationMatchesReferenceInRange ==
    (ret.done /\ InRange(result)) => ret.err = RefValidate(result)

\* The run of C9: the defaults, -s kitchen=AA:BB:CC:DD:EE:FF and
\* --stale-duration=3m, in either order.
KitchenRun ==
    /\ Len(args) = 2
    /\ \E i, j \in 1..2 :
        /\ args[i].flag = "sensor" /\ args[i].val = Kitchen
        /\ args[j].flag = "stale-duration" /\ args[j].val = 3 * Minute

\* C9 as stated: the kitchen run, started where the built-in directory can be
\* listed, is accepted with the kitchen descriptor as its only sensor.
C9_KitchenRunAccepted ==
    (KitchenRun /\ Finished /\ ReadDir(fs, DefaultSensorDir).listable) =>
        /\ Accepted
        /\ ret.config.Sensors =
              <<[ZeroSensor EXCEPT !.Name = KitchenName, !.MacAddress = KitchenMac]>>

\* C9 as amended: the kitchen run is never accepted.
C9_KitchenRunRejected ==
    KitchenRun => ~Accepted

C9_Witness ==
    /\ KitchenRun
    /\ Finished
    /\ ReadDir(fs, readPath).listable
    /\ Len(result.Sensors) > 0

-----------------------------------------------------------------------------
(* Properties of the two strategies *)

NonEmptyAddresses(sensors) ==
    \A i \in 1..Len(sensors) : Len(sensors[i].MacAddress) > 0

\* C4: every descriptor either strategy produces has a non-empty address.
C4_EveryDescriptorHasAddress ==
    /\ NonEmptyAddresses(list)
    /\ NonEmptyAddresses(dirRet.sensors)
    /\ NonEmptyAddresses(result.Sensors)

\* The record files of the listing: the files named *.json.
RecordEntries == SelectSeq(fs.default.entries,
                           LAMBDA e : ~e.isDir /\ HasSuffix(e.name, JsonSuffix))
ValidRecord(e) == e.readable /\ UnmarshalJSON(e.data).err = nil
ValidEntries == SelectSeq(RecordEntries, ValidRecord)
BadEntries == SelectSeq(RecordEntries, LAMBDA e : ~ValidRecord(e))
Skips(lg) ==
    Len(SelectSeq(lg, LAMBDA m : m \in {"Error reading file", "Error unmarshalling JSON"}))

\* C5: for a directory that can be listed, readSensorsFromDir returns no
\* error and exactly the descriptors of the valid record files, in listing
\* order, and logs one skip per unreadable or malformed record file;
\* directories and files without the suffix give neither.
C5_DirReaderSkipsBadFiles ==
    (dirRet.done /\ fs.default.listable) =>
        /\ dirRet.err = nil
        /\ Len(dirRet.sensors) = Len(ValidEntries)
        /\ \A i \in 1..Len(ValidEntries) :
              dirRet.sensors[i] = UnmarshalJSON(ValidEntries[i].data).sensor
        /\ Skips(dirRet.log) = Len(BadEntries)

C5_Witness ==
    /\ dirRet.done
    /\ Len(fs.default.entries) = 3
    /\ fs.default.entries[1].isDir
    /\ HasSuffix(fs.default.entries[1].name, JsonSuffix)
    /\ Len(BadEntries) = 1
    /\ Len(dirRet.sensors) = 1
    /\ ~ValidRecord(fs.default.entries[2])
    /\ Skips(dirRet.log) = 1

IsZeroThresholds(d) ==
    /\ d.MaxSoilMoist = 0 /\ d.MinSoilMoist = 0
    /\ d.MaxSoilEc = 0 /\ d.MinSoilEc = 0
    /\ d.MaxLightLux = 0 /\ d.MinLightLux = 0

NoEmptyToken == \A i \in 1..Len(tokens) : Len(tokens[i]) > 0

\* C6: for non-empty values set in order, the list holds one descriptor per
\* value set so far, in order: without "=" the value is the address and the
\* name is empty; with "=" the name is what precedes the first "=" and the
\* address all that follows it; the thresholds are zero.
C6_SetSplitsAtFirstEquals ==
    NoEmptyToken =>
        /\ setErr = nil
        /\ Len(list) = ti
        /\ \A i \in 1..ti :
              /\ IsZeroThresholds(list[i])
              /\ IF "=" \notin Range(tokens[i])
                 THEN list[i].MacAddress = tokens[i] /\ list[i].Name = <<>>
                 ELSE /\ list[i].Name \o <<"=">> \o list[i].MacAddress = tokens[i]
                      /\ "=" \notin Range(list[i].Name)

C6_Witness ==
    /\ NoEmptyToken
    /\ ti = Len(tokens)
    /\ ti = 2
    /\ "=" \notin Range(tokens[1])
    /\ "=" \in Range(list[2].MacAddress)
    /\ Len(list[2].Name) > 0

====
